---------------------------- MODULE Spec2Model ----------------------------
(***************************************************************************)
(* remarkable-katex-plus: the inline and block KaTeX span scanners         *)
(* (parseInlineKatex, parseBlockKatex), the plugin constructor (rkatex)    *)
(* and the post-render markup normalizer (processAriaHidden).              *)
(*                                                                         *)
(* Text is a sequence of one-character strings.  Positions are the         *)
(* 0-based JavaScript indices of the source; charAt and slice convert.     *)
(***************************************************************************)
EXTENDS Integers, Sequences, FiniteSets, TLC

VARIABLES state, call, md, use

vars == <<state, call, md, use>>

(* ------------------------------ bounds -------------------------------- *)

\* longest source text handed to the inline scanner
MaxLen == 6

\* most lines of a document handed to the block scanner
MaxLines == 3

\* most attributes of the generated opening tag
MaxAttrs == 3

\* longest delimiter option handed to the plugin
MaxDelimLen == 2

(* ---------------------------- characters ------------------------------ *)

dollar == "$"
backslash == "\\"
SP == " "
LF == "\n"

\* the characters inline source texts are drawn from: those the scanner tells
\* apart.  A backslash that no brace follows is ordinary text, and stands for
\* every other character.
InlineChars == {dollar, "{", "}", backslash, SP, LF}

\* the sequences over S of length at most n
SeqsUpTo(S, n) == UNION {[1 .. k -> S] : k \in 0 .. n}

(* --------------------------- string helpers --------------------------- *)

\* String.prototype.charAt: "" outside the string
charAt(s, i) == IF i >= 0 /\ i < Len(s) THEN s[i + 1] ELSE ""

\* String.prototype.slice(a, b) for 0 <= a, b
slice(s, a, b) ==
  LET e == IF b > Len(s) THEN Len(s) ELSE b
  IN  IF a >= e THEN <<>> ELSE SubSeq(s, a + 1, e)

\* .replace(/[ \n]+/g, ' ')
RECURSIVE replaceSpaces(_)
replaceSpaces(s) ==
  IF s = <<>> THEN <<>>
  ELSE IF Head(s) \in {SP, LF}
       THEN IF Len(s) > 1 /\ s[2] \in {SP, LF}
            THEN replaceSpaces(Tail(s))
            ELSE <<SP>> \o replaceSpaces(Tail(s))
       ELSE <<Head(s)>> \o replaceSpaces(Tail(s))

\* the white space String.prototype.trim removes
WhiteSpace == {SP, LF, "\t", "\r"}

RECURSIVE trimStart(_)
trimStart(s) ==
  IF s # <<>> /\ Head(s) \in WhiteSpace THEN trimStart(Tail(s)) ELSE s

RECURSIVE trimEnd(_)
trimEnd(s) ==
  IF s # <<>> /\ s[Len(s)] \in WhiteSpace THEN trimEnd(SubSeq(s, 1, Len(s) - 1)) ELSE s

\* String.prototype.trim
trim(s) == trimEnd(trimStart(s))

(* --------------------------- inline scanner --------------------------- *)

\* while (p < max && state.src.charAt(p) === delimiter) { ++p; }
RECURSIVE skipDelimiters(_, _, _, _)
skipDelimiters(src, p, max, delimiter) ==
  IF p < max /\ charAt(src, p) = delimiter
  THEN skipDelimiters(src, p + 1, max, delimiter)
  ELSE p

\* mutation of unescaped: a brace counts whatever precedes it
everyBrace(src, pos) == TRUE

\* char is a brace that is not immediately preceded by a backslash
unescaped(src, pos) == pos = 0 \/ charAt(src, pos - 1) # backslash

NoMatch == [found |-> FALSE, matchStart |-> 0, matchEnd |-> 0]

\* the scan loop of parseInlineKatex: the closing marker it accepts, if any
RECURSIVE scanSpan(_, _, _, _, _, _)
scanSpan(src, pos, max, delimiter, escapedDepth, markerLen) ==
  IF pos >= max THEN NoMatch
  ELSE LET char == charAt(src, pos) IN
    IF char = "{" /\ unescaped(src, pos)
    THEN scanSpan(src, pos + 1, max, delimiter, escapedDepth + 1, markerLen)
    ELSE IF char = "}" /\ unescaped(src, pos)
    THEN IF escapedDepth - 1 < 0 THEN NoMatch
         ELSE scanSpan(src, pos + 1, max, delimiter, escapedDepth - 1, markerLen)
    ELSE IF char = delimiter /\ escapedDepth = 0
    THEN LET matchEnd == skipDelimiters(src, pos + 1, max, delimiter) IN
         IF matchEnd - pos = markerLen
         THEN [found |-> TRUE, matchStart |-> pos, matchEnd |-> matchEnd]
         ELSE scanSpan(src, pos + 1, max, delimiter, escapedDepth, markerLen)
    ELSE scanSpan(src, pos + 1, max, delimiter, escapedDepth, markerLen)

\* state.push(token) of the inline state
push(st, token) == [st EXCEPT !.tokens = Append(@, token)]

\* mutation of emit: the token is pushed in silent mode too
emitAlways(st, silent, token) == push(st, token)

\* if (!silent) { state.push(...) }
emit(st, silent, token) == IF silent THEN st ELSE push(st, token)

\* mutation of posAfterMatch: the cursor is left at the closing marker
posAtMarker(m) == m.matchStart

\* where the accepted closing marker leaves state.pos
posAfterMatch(m) == m.matchEnd

\* the token parseInlineKatex pushes
inlineToken(st, spanStart, m, markerLen) ==
  [type |-> "katex",
   content |-> trim(replaceSpaces(slice(st.src, spanStart, m.matchStart))),
   block |-> markerLen > 1,
   level |-> st.level]

\* parseInlineKatex(state, silent, delimiter): the state it leaves and what it returns
parseInlineKatex(st, silent, delimiter) ==
  LET start == st.pos
      max == st.posMax
  IN
  IF charAt(st.src, start) # delimiter THEN [state |-> st, ret |-> FALSE]
  ELSE
    LET spanStart == skipDelimiters(st.src, start + 1, max, delimiter)
        markerLen == spanStart - start
    IN
    IF markerLen > 2 THEN [state |-> st, ret |-> FALSE]
    ELSE
      LET m == scanSpan(st.src, spanStart, max, delimiter, 0, markerLen) IN
      IF ~m.found THEN [state |-> st, ret |-> FALSE]
      ELSE
        [state |-> [emit(st, silent, inlineToken(st, spanStart, m, markerLen))
                      EXCEPT !.pos = posAfterMatch(m)],
         ret |-> TRUE]


(* ---------------------------- block scanner --------------------------- *)

\* arrays of the host are indexed by 0-based line numbers
at(arr, lineNo) == arr[lineNo + 1]

\* StateBlock.skipChars(pos, marker): the end of the run of marker at pos
RECURSIVE skipChars(_, _, _)
skipChars(src, pos, marker) ==
  IF pos < Len(src) /\ charAt(src, pos) = marker THEN skipChars(src, pos + 1, marker) ELSE pos

\* StateBlock.skipSpaces(pos): the end of the run of spaces at pos
RECURSIVE skipSpaces(_, _)
skipSpaces(src, pos) ==
  IF pos < Len(src) /\ charAt(src, pos) = SP THEN skipSpaces(src, pos + 1) ELSE pos

\* StateBlock.getLines(begin, end, indent, true): lines begin .. end-1, each
\* without at most indent characters of its own indentation, each with its line feed
RECURSIVE getLines(_, _, _, _)
getLines(st, begin, end, indent) ==
  IF begin >= end THEN <<>>
  ELSE LET shift == IF at(st.tShift, begin) > indent THEN indent ELSE at(st.tShift, begin)
           first == at(st.bMarks, begin) + shift
           last == at(st.eMarks, begin) + 1
       IN  slice(st.src, first, last) \o getLines(st, begin + 1, end, indent)

\* the opening line of a block: the length of the delimiter run after the
\* indentation of startLine, or -1 when the line does not start with the delimiter
openerLen(st, startLine, delimiter) ==
  LET pos == at(st.bMarks, startLine) + at(st.tShift, startLine)
      max == at(st.eMarks, startLine)
  IN  IF pos + 1 > max THEN -1
      ELSE IF charAt(st.src, pos) # delimiter THEN -1
      ELSE skipChars(st.src, pos, delimiter) - pos

\* what the opening line must be for the scan to go on
openerAccepted(st, startLine, delimiter) == openerLen(st, startLine, delimiter) = 2

\* mutation of belowBlock: no line stops the search
neverBelowBlock(st, nextLine) == FALSE

\* pos < max && state.tShift[nextLine] < state.blkIndent
belowBlock(st, nextLine) ==
  /\ at(st.bMarks, nextLine) + at(st.tShift, nextLine) < at(st.eMarks, nextLine)
  /\ at(st.tShift, nextLine) < st.blkIndent

\* mutation of tooDeep: a deeply indented line may close the block
neverTooDeep(st, nextLine) == FALSE

\* state.tShift[nextLine] - state.blkIndent >= 4
tooDeep(st, nextLine) == at(st.tShift, nextLine) - st.blkIndent >= 4

\* the for (;;) loop of parseBlockKatex, entered with nextLine already incremented
RECURSIVE searchEnd(_, _, _, _, _)
searchEnd(st, nextLine, endLine, delimiter, len) ==
  IF nextLine >= endLine THEN [haveEndMarker |-> FALSE, nextLine |-> nextLine]
  ELSE
    LET mem == at(st.bMarks, nextLine) + at(st.tShift, nextLine)
        max == at(st.eMarks, nextLine)
    IN
    IF belowBlock(st, nextLine)
    THEN [haveEndMarker |-> FALSE, nextLine |-> nextLine]
    ELSE IF charAt(st.src, mem) # delimiter
    THEN searchEnd(st, nextLine + 1, endLine, delimiter, len)
    ELSE IF tooDeep(st, nextLine)
    THEN searchEnd(st, nextLine + 1, endLine, delimiter, len)
    ELSE IF skipChars(st.src, mem, delimiter) - mem < len
    THEN searchEnd(st, nextLine + 1, endLine, delimiter, len)
    ELSE IF skipSpaces(st.src, skipChars(st.src, mem, delimiter)) < max
    THEN searchEnd(st, nextLine + 1, endLine, delimiter, len)
    ELSE [haveEndMarker |-> TRUE, nextLine |-> nextLine]

\* mutation of lineAfterBlock: the cursor is left on the closing line
lineAtMarker(nextLine) == nextLine

\* the line cursor after a block that closes on line nextLine
lineAfterBlock(nextLine) == nextLine + 1

\* the token parseBlockKatex pushes
blockToken(st, startLine, nextLine) ==
  [type |-> "katex", params |-> "null",
   content |-> trim(replaceSpaces(getLines(st, startLine + 1, nextLine,
                                           at(st.tShift, startLine)))),
   lines |-> <<startLine, lineAfterBlock(nextLine)>>,
   level |-> st.level, block |-> TRUE]

\* mutation of parseBlockKatex: state.line is advanced before the end marker is
\* known to have been found
parseBlockKatexLineFirst(st, startLine, endLine, delimiter) ==
  IF ~openerAccepted(st, startLine, delimiter) THEN [state |-> st, ret |-> FALSE]
  ELSE
    LET e == searchEnd(st, startLine + 1, endLine, delimiter, 2)
        moved == [st EXCEPT !.line = lineAfterBlock(e.nextLine)]
    IN
    IF ~e.haveEndMarker THEN [state |-> moved, ret |-> FALSE]
    ELSE [state |-> [moved EXCEPT
                       !.tokens = Append(@, blockToken(st, startLine, e.nextLine))],
          ret |-> TRUE]

\* parseBlockKatex(state, startLine, endLine, delimiter)
parseBlockKatex(st, startLine, endLine, delimiter) ==
  IF ~openerAccepted(st, startLine, delimiter) THEN [state |-> st, ret |-> FALSE]
  ELSE
    LET e == searchEnd(st, startLine + 1, endLine, delimiter, 2) IN
    IF ~e.haveEndMarker THEN [state |-> st, ret |-> FALSE]
    ELSE [state |-> [st EXCEPT !.line = lineAfterBlock(e.nextLine),
                               !.tokens = Append(@, blockToken(st, startLine, e.nextLine))],
          ret |-> TRUE]

(* -------------------------- markup normalizer ------------------------- *)

QUOT == "\""
APOS == "'"

\* ["']
isQuote(c) == c \in {QUOT, APOS}

\* \s
isSpace(c) == c \in {SP, LF, "\t", "\r", "\f"}

LowerLetters ==
  {"a", "b", "c", "d", "e", "f", "g", "h", "i", "j", "k", "l", "m",
   "n", "o", "p", "q", "r", "s", "t", "u", "v", "w", "x", "y", "z"}

UpperLetters ==
  {"A", "B", "C", "D", "E", "F", "G", "H", "I", "J", "K", "L", "M",
   "N", "O", "P", "Q", "R", "S", "T", "U", "V", "W", "X", "Y", "Z"}

Digits == {"0", "1", "2", "3", "4", "5", "6", "7", "8", "9"}

\* [a-zA-Z]
isAlpha(c) == c \in LowerLetters \cup UpperLetters

\* [a-zA-Z0-9]
isAlnum(c) == isAlpha(c) \/ c \in Digits

\* the i flag of ariaHiddenRegex: letters compare without case
fold(c) ==
  CASE c = "A" -> "a" [] c = "R" -> "r" [] c = "I" -> "i" [] c = "H" -> "h"
    [] c = "D" -> "d" [] c = "E" -> "e" [] c = "N" -> "n" [] c = "T" -> "t"
    [] c = "U" -> "u" [] OTHER -> c

litAria == <<"a", "r", "i", "a", "-", "h", "i", "d", "d", "e", "n", "=">>
litTrue == <<"t", "r", "u", "e">>
litClass == <<"c", "l", "a", "s", "s", "=">>
litStyle == <<"s", "t", "y", "l", "e", "=">>
litInline == <<"i", "n", "l", "i", "n", "e">>
litDisplayNone == <<"d", "i", "s", "p", "l", "a", "y", ":", "n", "o", "n", "e">>
litDisplaySpNone == <<"d", "i", "s", "p", "l", "a", "y", ":", " ", "n", "o", "n", "e">>
litAddStyle == <<" ", "s", "t", "y", "l", "e", "=", "\"", "d", "i", "s", "p", "l", "a", "y", ":", "n", "o", "n", "e", "\"", ">">>

\* s holds lit at the 0-based index i
startsWith(s, i, lit) ==
  /\ i >= 0
  /\ i + Len(lit) <= Len(s)
  /\ \A k \in 1 .. Len(lit) : s[i + k] = lit[k]

\* the same, letters compared without case
startsWithNoCase(s, i, lit) ==
  /\ i >= 0
  /\ i + Len(lit) <= Len(s)
  /\ \A k \in 1 .. Len(lit) : fold(s[i + k]) = fold(lit[k])

\* String.prototype.includes
includes(s, lit) == \E i \in 0 .. Len(s) : startsWith(s, i, lit)

\* String.prototype.endsWith
endsWith(s, lit) == Len(s) >= Len(lit) /\ startsWith(s, Len(s) - Len(lit), lit)

\* the index of the first quote character at or after i, or -1
RECURSIVE nextQuote(_, _)
nextQuote(s, i) ==
  IF i >= Len(s) THEN -1
  ELSE IF isQuote(charAt(s, i)) THEN i ELSE nextQuote(s, i + 1)

\* the index of the first ">" at or after i, or -1
RECURSIVE nextGt(_, _)
nextGt(s, i) ==
  IF i >= Len(s) THEN -1
  ELSE IF charAt(s, i) = ">" THEN i ELSE nextGt(s, i + 1)

NoAttr == [found |-> FALSE, start |-> 0, valStart |-> 0, valEnd |-> 0, end |-> 0]

\* /name=["']([^"']*)["']/ matched at exactly the index p
attrAt(s, p, name) ==
  LET valStart == p + Len(name) + 1
      close == nextQuote(s, valStart)
  IN  IF charAt(s, p) = name[1] /\ startsWith(s, p, name)
           /\ isQuote(charAt(s, p + Len(name))) /\ close >= 0
      THEN [found |-> TRUE, start |-> p, valStart |-> valStart, valEnd |-> close,
            end |-> close + 1]
      ELSE NoAttr

\* the first match of /name=["']([^"']*)["']/ in s, searched from p
RECURSIVE findAttr(_, _, _)
findAttr(s, p, name) ==
  IF p >= Len(s) THEN NoAttr
  ELSE LET a == attrAt(s, p, name)
       IN  IF a.found THEN a ELSE findAttr(s, p + 1, name)

\* existingClasses.split(' ')
RECURSIVE split(_, _)
split(s, piece) ==
  IF s = <<>> THEN <<piece>>
  ELSE IF Head(s) = SP THEN <<piece>> \o split(Tail(s), <<>>)
  ELSE split(Tail(s), Append(piece, Head(s)))

\* the filter callback: cls => cls.trim() && cls !== 'inline'
keepClass(cls) == trim(cls) # <<>> /\ cls # litInline

\* .filter(...).join(' ')
RECURSIVE joinKept(_)
joinKept(pieces) ==
  IF pieces = <<>> THEN <<>>
  ELSE IF ~keepClass(Head(pieces)) THEN joinKept(Tail(pieces))
  ELSE LET rest == joinKept(Tail(pieces))
       IN  IF rest = <<>> THEN Head(pieces) ELSE Head(pieces) \o <<SP>> \o rest

filterClasses(existingClasses) == joinKept(split(existingClasses, <<>>))

\* the start of the run of white space that ends just before index p
RECURSIVE spaceRunStart(_, _)
spaceRunStart(s, p) ==
  IF p > 0 /\ isSpace(charAt(s, p - 1)) THEN spaceRunStart(s, p - 1) ELSE p

\* text.replace(/name=["']([^"']*)["']/, name + '"' + value + '"'): the first match only
replaceAttr(text, name, value) ==
  LET a == findAttr(text, 0, name) IN
  IF ~a.found THEN text
  ELSE slice(text, 0, a.start) \o name \o <<QUOT>> \o value \o <<QUOT>>
         \o slice(text, a.end, Len(text))

\* text.replace(/\s*class=["'][^"']*["']/, '')
removeClassAttr(text) ==
  LET a == findAttr(text, 0, litClass) IN
  IF ~a.found THEN text
  ELSE slice(text, 0, spaceRunStart(text, a.start)) \o slice(text, a.end, Len(text))

\* the class step of the replace callback
rewriteClass(match, fullAttrs) ==
  LET classMatch == findAttr(fullAttrs, 0, litClass) IN
  IF ~classMatch.found THEN match
  ELSE
    LET existingClasses == slice(fullAttrs, classMatch.valStart, classMatch.valEnd)
        filteredClasses == filterClasses(existingClasses)
    IN  IF filteredClasses = existingClasses THEN match
        ELSE IF filteredClasses # <<>> THEN replaceAttr(match, litClass, filteredClasses)
        ELSE removeClassAttr(match)

\* existingStyle already hides the element
hasDisplayNone(existingStyle) ==
  includes(existingStyle, litDisplayNone) \/ includes(existingStyle, litDisplaySpNone)

\* newStyle
appendDisplayNone(existingStyle) ==
  IF endsWith(existingStyle, <<";">>)
  THEN existingStyle \o <<SP>> \o litDisplayNone
  ELSE existingStyle \o <<";", SP>> \o litDisplayNone

\* the style step of the replace callback
rewriteStyle(processedMatch, fullAttrs) ==
  LET styleMatch == findAttr(fullAttrs, 0, litStyle) IN
  IF styleMatch.found
  THEN LET existingStyle == slice(fullAttrs, styleMatch.valStart, styleMatch.valEnd) IN
       IF ~hasDisplayNone(existingStyle)
       THEN replaceAttr(processedMatch, litStyle, appendDisplayNone(existingStyle))
       ELSE processedMatch
  ELSE IF endsWith(processedMatch, <<">">>)
       THEN slice(processedMatch, 0, Len(processedMatch) - 1) \o litAddStyle
       ELSE processedMatch

\* the replace callback of processAriaHidden
rewriteTag(match, beforeAttrs, afterAttrs) ==
  rewriteStyle(rewriteClass(match, beforeAttrs \o afterAttrs), beforeAttrs \o afterAttrs)

\* aria-hidden=["']true["'] at exactly the index j
ariaAt(s, j) ==
  /\ fold(charAt(s, j)) = litAria[1]
  /\ startsWithNoCase(s, j, litAria)
  /\ isQuote(charAt(s, j + Len(litAria)))
  /\ startsWithNoCase(s, j + Len(litAria) + 1, litTrue)
  /\ isQuote(charAt(s, j + Len(litAria) + 1 + Len(litTrue)))

ariaLen == Len(litAria) + Len(litTrue) + 2

\* the end of the run of [a-zA-Z0-9] at i
RECURSIVE alnumEnd(_, _)
alnumEnd(s, i) == IF i < Len(s) /\ isAlnum(charAt(s, i)) THEN alnumEnd(s, i + 1) ELSE i

\* the end of the run of \s at i
RECURSIVE spaceEnd(_, _)
spaceEnd(s, i) == IF i < Len(s) /\ isSpace(charAt(s, i)) THEN spaceEnd(s, i + 1) ELSE i

\* ([^>]*?)aria-hidden=["']true["']: the first index at or after j, with no ">" before
\* it, where the attribute stands; -1 when there is none
RECURSIVE findAria(_, _)
findAria(s, j) ==
  IF j >= Len(s) THEN -1
  ELSE IF ariaAt(s, j) THEN j
  ELSE IF charAt(s, j) = ">" THEN -1
  ELSE findAria(s, j + 1)

NoTag == [found |-> FALSE, end |-> 0, beforeAttrs |-> <<>>, afterAttrs |-> <<>>]

\* ariaHiddenRegex matched at exactly the index i
tagAt(s, i) ==
  IF charAt(s, i) # "<" \/ ~isAlpha(charAt(s, i + 1)) THEN NoTag
  ELSE
    LET nameEnd == alnumEnd(s, i + 1)
        attrsStart == spaceEnd(s, nameEnd)
    IN
    IF attrsStart = nameEnd THEN NoTag
    ELSE
      LET j == findAria(s, attrsStart) IN
      IF j < 0 THEN NoTag
      ELSE
        LET gt == nextGt(s, j + ariaLen) IN
        IF gt < 0 THEN NoTag
        ELSE [found |-> TRUE, end |-> gt + 1,
              beforeAttrs |-> slice(s, attrsStart, j),
              afterAttrs |-> slice(s, j + ariaLen, gt)]

\* htmlContent.replace(ariaHiddenRegex, callback), from index i on
RECURSIVE replaceTags(_, _)
replaceTags(s, i) ==
  IF i >= Len(s) THEN <<>>
  ELSE LET t == tagAt(s, i) IN
       IF t.found
       THEN rewriteTag(slice(s, i, t.end), t.beforeAttrs, t.afterAttrs)
              \o replaceTags(s, t.end)
       ELSE <<charAt(s, i)>> \o replaceTags(s, i + 1)

\* processAriaHidden(htmlContent, config)
processAriaHidden(htmlContent) ==
  IF htmlContent = <<>> THEN htmlContent ELSE replaceTags(htmlContent, 0)

\* applyCustomStyling(htmlContent, config)
applyCustomStyling(htmlContent) ==
  IF htmlContent = <<>> THEN htmlContent ELSE processAriaHidden(htmlContent)

(* ------------------------------- plugin ------------------------------- *)

\* a Remarkable instance no plugin has been used on
FreshMd ==
  [inlineRules |-> <<>>, blockRules |-> <<>>,
   rendererKatex |-> [set |-> FALSE, delimiter |-> ""]]

\* mutation of delimiterOf: only a missing delimiter falls back to the default
delimiterOrMissing(options) ==
  IF options.given /\ options.hasDelimiter THEN options.delimiter ELSE dollar

\* opts.delimiter || dollar, with opts = options || {}
delimiterOf(options) ==
  IF options.given /\ options.hasDelimiter /\ options.delimiter # ""
  THEN options.delimiter
  ELSE dollar

\* what rkatex registers on md once the delimiter is accepted
register(m, delimiter) ==
  [inlineRules |-> Append(m.inlineRules, [name |-> "katex", delimiter |-> delimiter]),
   blockRules |-> Append(m.blockRules, [name |-> "katex", delimiter |-> delimiter]),
   rendererKatex |-> [set |-> TRUE, delimiter |-> delimiter]]

\* mutation of rkatex: the rules are registered before the delimiter is checked
rkatexRegisterFirst(m, options) ==
  [threw |-> Len(delimiterOf(options)) # 1, md |-> register(m, delimiterOf(options))]

\* rkatex(md, options): whether it throws, and md afterwards
rkatex(m, options) ==
  IF Len(delimiterOf(options)) # 1
  THEN [threw |-> TRUE, md |-> m]
  ELSE [threw |-> FALSE, md |-> register(m, delimiterOf(options))]

\* parseInlineKatexWrapper(state, silent) of a registered rule
parseInlineKatexWrapper(rule, st, silent) == parseInlineKatex(st, silent, rule.delimiter)

\* parseBlockKatexWrapper(state, startLine, endLine) of a registered rule
parseBlockKatexWrapper(rule, st, startLine, endLine) ==
  parseBlockKatex(st, startLine, endLine, rule.delimiter)

NoOptions == [given |-> FALSE, hasDelimiter |-> FALSE, delimiter |-> ""]

(* ----------------------------- host states ---------------------------- *)

NoCall == [fn |-> "none"]

\* an inline state of the host: a source text and a cursor inside it
InlineState(src, pos, posMax) ==
  [kind |-> "inline", src |-> src, pos |-> pos, posMax |-> posMax,
   tokens |-> <<>>, level |-> 0]

\* what follows the indentation on the lines block documents are made of
BlockBodies ==
  { <<>>, <<"x">>, <<dollar>>, <<dollar, dollar>>, <<dollar, dollar, dollar>>,
    <<dollar, dollar, "x">>, <<dollar, dollar, SP>> }

\* the indentations of those lines
Indents == {0, 1, 4}

BlockLines == [indent : Indents, body : BlockBodies]

RECURSIVE Spaces(_)
Spaces(n) == IF n = 0 THEN <<>> ELSE <<SP>> \o Spaces(n - 1)

lineText(l) == Spaces(l.indent) \o l.body

\* the lines joined by line feeds
RECURSIVE joinLines(_)
joinLines(ls) ==
  IF ls = <<>> THEN <<>>
  ELSE IF Len(ls) = 1 THEN lineText(ls[1])
  ELSE lineText(ls[1]) \o <<LF>> \o joinLines(Tail(ls))

\* offset of the first character of line i (1-based) in the joined text
RECURSIVE lineStart(_, _)
lineStart(ls, i) ==
  IF i = 1 THEN 0 ELSE lineStart(ls, i - 1) + Len(lineText(ls[i - 1])) + 1

\* a block state of the host over the lines ls, about to run the rules at startLine
BlockState(ls, blkIndent, startLine) ==
  [kind |-> "block", src |-> joinLines(ls),
   bMarks |-> [i \in 1 .. Len(ls) |-> lineStart(ls, i)],
   eMarks |-> [i \in 1 .. Len(ls) |-> lineStart(ls, i) + Len(lineText(ls[i]))],
   tShift |-> [i \in 1 .. Len(ls) |-> ls[i].indent],
   blkIndent |-> blkIndent, line |-> startLine, tokens |-> <<>>, level |-> 0]

\* the line range the host hands to the block rules; the scanner reads no line
\* before startLine and none from endLine on: the range is the whole document,
\* or the document without one line before, or without one line after
BlockRanges(n) == {r \in {<<0, n>>, <<1, n>>, <<0, n - 1>>} : r[1] < r[2]}

InitBlock ==
  /\ \E ls \in SeqsUpTo(BlockLines, MaxLines) : \E blkIndent \in {0, 1} :
       \E r \in BlockRanges(Len(ls)) :
         /\ ls[r[1] + 1].indent >= blkIndent
         /\ state = BlockState(ls, blkIndent, r[1])
         /\ call = [fn |-> "none", startLine |-> r[1], endLine |-> r[2]]

(* markup handed to the normalizer: text, an opening tag with up to MaxAttrs
   attributes in any order, text, and possibly a second opening tag *)

AttrTexts ==
  { <<"a", "r", "i", "a", "-", "h", "i", "d", "d", "e", "n", "=", "\"", "t", "r", "u", "e", "\"">>,
    <<"a", "r", "i", "a", "-", "h", "i", "d", "d", "e", "n", "=", "'", "t", "r", "u", "e", "'">>,
    <<"c", "l", "a", "s", "s", "=", "\"", "i", "n", "l", "i", "n", "e", "\"">>,
    <<"c", "l", "a", "s", "s", "=", "\"", "a", " ", "i", "n", "l", "i", "n", "e", " ", "b", "\"">>,
    <<"c", "l", "a", "s", "s", "=", "'", "b", "'">>,
    <<"s", "t", "y", "l", "e", "=", "\"", "d", "i", "s", "p", "l", "a", "y", ":", "n", "o", "n", "e", "\"">>,
    <<"s", "t", "y", "l", "e", "=", "\"", "d", "i", "s", "p", "l", "a", "y", ":", " ", "n", "o", "n", "e", ";", "\"">>,
    <<"s", "t", "y", "l", "e", "=", "\"", "c", ":", "d", "\"">>,
    <<"s", "t", "y", "l", "e", "=", "\"", "c", ":", "d", ";", "\"">>,
    <<"i", "d", "=", "\"", "x", "\"">>,
    <<"d", "a", "t", "a", "-", "c", "l", "a", "s", "s", "=", "\"", "i", "n", "l", "i", "n", "e", "\"">>,
    <<"d", "a", "t", "a", "-", "s", "t", "y", "l", "e", "=", "\"", "c", ":", "d", "\"">>,
    <<"c", "l", "a", "s", "s", "=", "\"", "b", " ", "\"">> }

RECURSIVE joinAttrs(_)
joinAttrs(as) == IF as = <<>> THEN <<>> ELSE <<SP>> \o Head(as) \o joinAttrs(Tail(as))

Tag(name, as) == <<"<">> \o name \o joinAttrs(as) \o <<">">>

SecondTags ==
  { <<>>, Tag(<<"b">>, <<<<"a", "r", "i", "a", "-", "h", "i", "d", "d", "e", "n", "=", "\"", "f", "a", "l", "s", "e", "\"">>>>),
    Tag(<<"i">>, <<<<"a", "r", "i", "a", "-", "h", "i", "d", "d", "e", "n", "=", "\"", "t", "r", "u", "e", "\"">>>>) }

Markup(as, second) == <<"t">> \o Tag(<<"a">>, as) \o <<"u">> \o second

MarkupState(html) == [kind |-> "markup", html |-> html]

InitMarkup ==
  /\ \E as \in SeqsUpTo(AttrTexts, MaxAttrs) : \E second \in SecondTags :
        state = MarkupState(Markup(as, second))
  /\ call = [fn |-> "none", again |-> FALSE]

(* the options a plugin is used with *)

RECURSIVE Strs(_, _)
Strs(S, n) ==
  IF n = 0 THEN {""} ELSE Strs(S, n - 1) \cup {s \o c : s \in Strs(S, n - 1), c \in S}

OptionSets ==
  {NoOptions, [given |-> TRUE, hasDelimiter |-> FALSE, delimiter |-> ""]}
    \cup {[given |-> TRUE, hasDelimiter |-> TRUE, delimiter |-> d] :
            d \in Strs({dollar, "@"}, MaxDelimLen)}

PluginChars == {dollar, "@", "x"}

PluginLines == [indent : {0}, body : {<<dollar, dollar>>, <<"@", "@">>, <<"x">>}]

\* the texts a freshly configured parser is run on
InitPluginText ==
  \/ /\ \E src \in SeqsUpTo(PluginChars, MaxLen) :
          src # <<>> /\ state = InlineState(src, 0, Len(src))
     /\ call = NoCall
  \/ \E ls \in SeqsUpTo(PluginLines, MaxLines) :
          /\ ls # <<>>
          /\ state = BlockState(ls, 0, 0)
          /\ call = [fn |-> "none", startLine |-> 0, endLine |-> Len(ls)]

\* The scanner reads nothing before state.pos and nothing at or after
\* state.posMax: the range is the whole text, or the text without one
\* character before and one after, which stand for any text there.
InlineRanges(n) == {r \in {<<0, n>>, <<1, n - 1>>} : r[1] < r[2]}

InitInline ==
  /\ \E src \in SeqsUpTo(InlineChars, MaxLen) : \E r \in InlineRanges(Len(src)) :
        state = InlineState(src, r[1], r[2])
  /\ call = NoCall

(* ------------------------------ actions ------------------------------- *)

\* md.use(plugin, options)
Use ==
  /\ use.status = "pending"
  /\ LET r == rkatex(md, use.options) IN
       /\ md' = r.md
       /\ use' = [use EXCEPT !.status = IF r.threw THEN "threw" ELSE "returned"]
  /\ UNCHANGED <<state, call>>

\* the host engine runs the registered inline rule at state.pos
CallInline(silent) ==
  /\ state.kind = "inline"
  /\ call.fn = "none"
  /\ md.inlineRules # <<>>
  /\ LET rule == md.inlineRules[1]
         r == parseInlineKatexWrapper(rule, state, silent)
     IN
       /\ state' = r.state
       /\ call' = [fn |-> "parseInlineKatex", silent |-> silent,
                   delimiter |-> rule.delimiter, before |-> state, ret |-> r.ret]
  /\ UNCHANGED <<md, use>>

\* the host engine runs the registered block rule on the lines startLine .. endLine-1
CallBlock ==
  /\ state.kind = "block"
  /\ call.fn = "none"
  /\ md.blockRules # <<>>
  /\ LET rule == md.blockRules[1]
         r == parseBlockKatexWrapper(rule, state, call.startLine, call.endLine)
     IN
       /\ state' = r.state
       /\ call' = [fn |-> "parseBlockKatex", delimiter |-> rule.delimiter,
                   startLine |-> call.startLine, endLine |-> call.endLine,
                   before |-> state, ret |-> r.ret]
  /\ UNCHANGED <<md, use>>

\* renderKatex hands the rendered markup to applyCustomStyling; the markup it
\* returns may be handed to it again
Normalize ==
  /\ state.kind = "markup"
  /\ state' = [state EXCEPT !.html = applyCustomStyling(state.html)]
  /\ call' = [fn |-> "applyCustomStyling", arg |-> state.html,
              again |-> call.fn # "none"]
  /\ UNCHANGED <<md, use>>

(* --------------------------- specifications --------------------------- *)

\* a parser the plugin was used on with no options
DefaultMd == rkatex(FreshMd, NoOptions).md

Configured ==
  /\ md = DefaultMd
  /\ use = [options |-> NoOptions, status |-> "returned"]

\* the scanners, run by a parser with the default delimiter
Init == (InitInline \/ InitBlock) /\ Configured

Next ==
  \/ \E silent \in BOOLEAN : CallInline(silent)
  \/ CallBlock

Spec == Init /\ [][Next]_vars

\* the normalizer, run over rendered markup
InitNorm == InitMarkup /\ Configured

NextNorm == Normalize

SpecNorm == InitNorm /\ [][NextNorm]_vars

\* the plugin, used on a fresh parser that is then run
InitPlugin ==
  /\ InitPluginText
  /\ md = FreshMd
  /\ \E o \in OptionSets : use = [options |-> o, status |-> "pending"]

NextPlugin ==
  \/ Use
  \/ \E silent \in BOOLEAN : CallInline(silent)
  \/ CallBlock

SpecPlugin == InitPlugin /\ [][NextPlugin]_vars

(* ------------------------------- claims ------------------------------- *)

InlineReturned == call.fn = "parseInlineKatex"
BlockReturned == call.fn = "parseBlockKatex"

\* the text of s cut at every space and line feed, the empty pieces dropped
RECURSIVE wordsOf(_, _)
wordsOf(s, word) ==
  IF s = <<>> THEN (IF word = <<>> THEN <<>> ELSE <<word>>)
  ELSE IF Head(s) \in {SP, LF}
       THEN (IF word = <<>> THEN <<>> ELSE <<word>>) \o wordsOf(Tail(s), <<>>)
       ELSE wordsOf(Tail(s), Append(word, Head(s)))

RECURSIVE joinWords(_)
joinWords(ws) ==
  IF ws = <<>> THEN <<>>
  ELSE IF Len(ws) = 1 THEN ws[1]
  ELSE ws[1] \o <<SP>> \o joinWords(Tail(ws))

\* text with every run of spaces and line feeds collapsed to one space, and no
\* space at either end
Normalized(text) == joinWords(wordsOf(text, <<>>))

\* the number of consecutive characters d of src from index p on, below max
RECURSIVE runLength(_, _, _, _)
runLength(src, p, max, d) ==
  IF p < max /\ p < Len(src) /\ src[p + 1] = d THEN 1 + runLength(src, p + 1, max, d) ELSE 0

\* C1: a call of parseInlineKatex or parseBlockKatex that returns false leaves
\* the host state exactly as it was before the call: state.pos and state.line
\* are unchanged and no token has been pushed.
C1_NoPartialConsumption ==
  (call.fn # "none" /\ ~call.ret) =>
     /\ state = call.before
     /\ state.tokens = call.before.tokens
     /\ state.kind = "inline" => state.pos = call.before.pos
     /\ state.kind = "block" => state.line = call.before.line

\* a block whose opener is accepted and that no line closes before the end bound
C1_Witness ==
  /\ BlockReturned /\ ~call.ret
  /\ openerLen(call.before, call.startLine, call.delimiter) = 2
  /\ call.endLine > call.startLine + 1

\* C2: a non-silent parseInlineKatex that returns true for start position p has
\* pushed exactly one token; with n in {1,2} the length of the run of the
\* delimiter at p, the closing marker is the n delimiters that end just before
\* state.pos, the content is the text strictly between the markers, normalized,
\* and the block flag is n = 2.
C2_InlineSuccess ==
  (InlineReturned /\ call.ret /\ ~call.silent) =>
     LET src == call.before.src
         p == call.before.pos
         n == runLength(src, p, call.before.posMax, call.delimiter)
         e == state.pos
     IN  /\ n \in {1, 2}
         /\ p + n <= e - n /\ e <= call.before.posMax
         /\ runLength(src, e - n, e, call.delimiter) = n
         /\ runLength(src, e, call.before.posMax, call.delimiter) = 0
         /\ state.tokens = Append(call.before.tokens,
                                  [type |-> "katex",
                                   content |-> Normalized(slice(src, p + n, e - n)),
                                   block |-> (n = 2),
                                   level |-> call.before.level])
         /\ state = [call.before EXCEPT !.pos = e, !.tokens = state.tokens]

\* a doubled marker around two words that two white-space characters separate
C2_Witness ==
  /\ InlineReturned /\ call.ret /\ ~call.silent
  /\ state.src = <<dollar, dollar, backslash, LF, SP, backslash, dollar, dollar>>
     \/ state.src = <<dollar, backslash, SP, LF, backslash, dollar>>
  /\ state.tokens[1].content = <<backslash, SP, backslash>>
  /\ state.pos = Len(state.src)

\* the text of line lineNo of st (0-based), without its line feed
lineOf(st, lineNo) == slice(st.src, at(st.bMarks, lineNo), at(st.eMarks, lineNo))

\* s without its first k characters, or without its leading spaces if fewer
RECURSIVE stripIndent(_, _)
stripIndent(s, k) ==
  IF k > 0 /\ s # <<>> /\ Head(s) = SP THEN stripIndent(Tail(s), k - 1) ELSE s

\* lines a .. b-1 of st, each without the indentation k and with a line feed
RECURSIVE innerLines(_, _, _, _)
innerLines(st, a, b, k) ==
  IF a >= b THEN <<>>
  ELSE stripIndent(lineOf(st, a), k) \o <<LF>> \o innerLines(st, a + 1, b, k)

\* line lineNo is, after its indentation, a run of at least k delimiters and
\* then only spaces
isFenceLine(st, lineNo, d, k) ==
  LET body == stripIndent(lineOf(st, lineNo), Len(lineOf(st, lineNo)))
      run == runLength(body, 0, Len(body), d)
  IN  run >= k /\ \A i \in run + 1 .. Len(body) : body[i] = SP

\* C3: a parseBlockKatex that returns true for startLine has pushed exactly one
\* token, with block = true, whose content is the lines strictly between
\* startLine and the closing line c, each without the opening line's
\* indentation, normalized; state.line is c + 1 and the token's lines are
\* [startLine, c + 1].
C3_BlockSuccess ==
  (BlockReturned /\ call.ret) =>
     LET st == call.before
         c == state.line - 1
     IN  /\ call.startLine < c /\ c < call.endLine
         /\ isFenceLine(st, c, call.delimiter, 2)
         /\ state.tokens = Append(st.tokens,
               [type |-> "katex", params |-> "null",
                content |-> Normalized(innerLines(st, call.startLine + 1, c,
                                                  at(st.tShift, call.startLine))),
                lines |-> <<call.startLine, c + 1>>,
                level |-> st.level, block |-> TRUE])
         /\ state = [st EXCEPT !.line = c + 1, !.tokens = state.tokens]

\* an indented block with a line of content that is indented more
C3_Witness ==
  /\ BlockReturned /\ call.ret
  /\ at(state.tShift, call.startLine) = 1
  /\ at(state.tShift, call.startLine + 1) = 4
  /\ state.tokens[1].content # <<>>
  /\ state.line = 3

\* C4: parseBlockKatex returns true only if the starting line, after its
\* indentation, is a run of exactly 2 delimiters and nothing but spaces.
C4_OpenerExact ==
  (BlockReturned /\ call.ret) =>
     LET body == stripIndent(lineOf(call.before, call.startLine),
                             Len(lineOf(call.before, call.startLine)))
     IN  /\ runLength(body, 0, Len(body), call.delimiter) = 2
         /\ \A i \in 3 .. Len(body) : body[i] = SP

\* C5: parseInlineKatex with silent = true returns what the call with
\* silent = false returns on the same state and leaves state.pos where that
\* call leaves it, and a silent call pushes no token.
C5_SilentSameScan ==
  InlineReturned =>
     LET other == parseInlineKatex(call.before, ~call.silent, call.delimiter) IN
       /\ call.ret = other.ret
       /\ state.pos = other.state.pos
       /\ call.silent => state.tokens = call.before.tokens
       /\ call.silent => state = [call.before EXCEPT !.pos = state.pos]

\* a silent call that matches
C5_Witness == InlineReturned /\ call.silent /\ call.ret /\ state.pos > call.before.pos

\* the opening tags and the characters between them, in document order
RECURSIVE piecesOf(_, _)
piecesOf(h, i) ==
  IF i >= Len(h) THEN <<>>
  ELSE IF charAt(h, i) = "<" /\ nextGt(h, i) >= 0
       THEN <<slice(h, i, nextGt(h, i) + 1)>> \o piecesOf(h, nextGt(h, i) + 1)
       ELSE <<slice(h, i, i + 1)>> \o piecesOf(h, i + 1)

isTag(piece) == Len(piece) > 1

\* the name and the attributes of a tag: its text cut at the spaces outside quotes
RECURSIVE partsOf(_, _, _)
partsOf(s, cur, quote) ==
  IF s = <<>> THEN (IF cur = <<>> THEN <<>> ELSE <<cur>>)
  ELSE IF quote # ""
       THEN partsOf(Tail(s), Append(cur, Head(s)), IF Head(s) = quote THEN "" ELSE quote)
       ELSE IF Head(s) = SP
            THEN (IF cur = <<>> THEN <<>> ELSE <<cur>>) \o partsOf(Tail(s), <<>>, "")
            ELSE partsOf(Tail(s), Append(cur, Head(s)),
                         IF isQuote(Head(s)) THEN Head(s) ELSE "")

tagParts(tag) == partsOf(slice(tag, 1, Len(tag) - 1), <<>>, "")

tagNameOf(tag) == tagParts(tag)[1]

attrsOf(tag) == Tail(tagParts(tag))

\* the attribute a is name=value, the value in either kind of quotes
isAttr(a, name, value) ==
  \/ a = name \o <<"=", QUOT>> \o value \o <<QUOT>>
  \/ a = name \o <<"=", APOS>> \o value \o <<APOS>>

\* the attribute a is named name
hasName(a, name) == startsWith(a, 0, name \o <<"=">>)

nameAriaHidden == <<"a", "r", "i", "a", "-", "h", "i", "d", "d", "e", "n">>
nameClass == <<"c", "l", "a", "s", "s">>
nameStyle == <<"s", "t", "y", "l", "e">>

carriesAriaHidden(tag) ==
  \E k \in 1 .. Len(attrsOf(tag)) : isAttr(attrsOf(tag)[k], nameAriaHidden, litTrue)

isHiddenVisually(tag) ==
  \E k \in 1 .. Len(attrsOf(tag)) :
     /\ hasName(attrsOf(tag)[k], nameStyle)
     /\ hasDisplayNone(attrsOf(tag)[k])

isOtherAttr(a) == ~hasName(a, nameClass) /\ ~hasName(a, nameStyle)

otherAttrs(tag) == SelectSeq(attrsOf(tag), isOtherAttr)

\* C6: a second run of the normalizer over its own output changes nothing.
C6_Idempotent ==
  (state.kind = "markup" /\ call.again) => state.html = call.arg

\* C7: one run of the normalizer rewrites every opening tag that carries
\* aria-hidden set to true, in either kind of quotes and at any place among the
\* attributes, and changes nothing else: the text and the other tags are the
\* same, and a rewritten tag keeps its name and its attributes other than class
\* and style.
C7_DetectionAndFrame ==
  (state.kind = "markup" /\ call.fn # "none" /\ ~call.again) =>
     LET P == piecesOf(call.arg, 0)
         Q == piecesOf(state.html, 0)
     IN  /\ Len(Q) = Len(P)
         /\ \A k \in 1 .. Len(P) :
              IF isTag(P[k]) /\ carriesAriaHidden(P[k])
              THEN /\ isTag(Q[k])
                   /\ isHiddenVisually(Q[k])
                   /\ tagNameOf(Q[k]) = tagNameOf(P[k])
                   /\ otherAttrs(Q[k]) = otherAttrs(P[k])
              ELSE Q[k] = P[k]

PluginUsed == use.status # "pending"

\* C8, as claimed: the plugin throws for every delimiter option whose length is
\* not 1, and then nothing has been registered.
C8_ThrowsUnlessLengthOne ==
  (PluginUsed /\ use.options.given /\ use.options.hasDelimiter
     /\ Len(use.options.delimiter) # 1)
  => (use.status = "threw" /\ md = FreshMd)

\* C8, amended: the plugin throws for every delimiter option longer than one
\* character; when it has thrown, no rule and no render hook is registered and
\* no scanner has run; when it has returned, the delimiter in effect is one
\* character, the one every scanner call was given.
C8_ThrowsForLongDelimiter ==
  /\ (PluginUsed /\ use.options.given /\ use.options.hasDelimiter
        /\ Len(use.options.delimiter) > 1)
     => use.status = "threw"
  /\ use.status = "threw" =>
        /\ md.inlineRules = <<>> /\ md.blockRules = <<>> /\ ~md.rendererKatex.set
        /\ call.fn = "none"
  /\ use.status = "returned" =>
        /\ md.rendererKatex.set /\ Len(md.rendererKatex.delimiter) = 1
        /\ \A k \in 1 .. Len(md.inlineRules) :
              md.inlineRules[k].delimiter = md.rendererKatex.delimiter
        /\ \A k \in 1 .. Len(md.blockRules) :
              md.blockRules[k].delimiter = md.rendererKatex.delimiter
        /\ call.fn # "none" => call.delimiter = md.rendererKatex.delimiter

\* the plugin has thrown on a two-character delimiter
C8_Witness ==
  /\ use.status = "threw"
  /\ use.options.given /\ use.options.hasDelimiter /\ Len(use.options.delimiter) = 2
  /\ state.kind = "inline" /\ charAt(state.src, 0) = dollar

\* C9: used with no options, with no delimiter option or with the empty string
\* as delimiter, the plugin returns, and the delimiter in effect, which both
\* scanners are given, is "$".
C9_DefaultDelimiter ==
  (PluginUsed /\ (~use.options.given \/ ~use.options.hasDelimiter
                    \/ use.options.delimiter = ""))
  => /\ use.status = "returned"
     /\ md.rendererKatex = [set |-> TRUE, delimiter |-> "$"]
     /\ md.inlineRules = <<[name |-> "katex", delimiter |-> "$"]>>
     /\ md.blockRules = <<[name |-> "katex", delimiter |-> "$"]>>
     /\ call.fn # "none" => call.delimiter = "$"

\* the empty delimiter was given and the block scanner has matched a $$ block
C9_Witness ==
  /\ use.options.given /\ use.options.hasDelimiter /\ use.options.delimiter = ""
  /\ BlockReturned /\ call.ret

\* C10: the closing marker a successful inline scan accepts is a whole run of
\* the delimiter: the character before it is not the delimiter.
C10_WholeRunCloses ==
  (InlineReturned /\ call.ret) =>
     LET n == runLength(call.before.src, call.before.pos, call.before.posMax,
                        call.delimiter)
     IN  charAt(state.src, state.pos - n - 1) # call.delimiter

\* the brace b at index i of src is not immediately preceded by a backslash
countedBrace(src, i, b) ==
  /\ i >= 0 /\ i < Len(src) /\ src[i + 1] = b
  /\ (i = 0 \/ src[i] # backslash)

\* the number of counted "{" minus the number of counted "}" at from .. i-1
RECURSIVE depthAt(_, _, _)
depthAt(src, from, i) ==
  IF i <= from THEN 0
  ELSE depthAt(src, from, i - 1)
         + (IF countedBrace(src, i - 1, "{") THEN 1
            ELSE IF countedBrace(src, i - 1, "}") THEN -1 ELSE 0)

\* C11: with depth the number of "{" minus the number of "}" since the end of
\* the opening marker, braces right after a backslash not counted: the closing
\* marker of a successful inline scan is at depth 0 and the depth was never
\* negative before it; and a counted "}" met at depth 0, with no delimiter at
\* depth 0 before it, makes the call return false whatever follows.
C11_BraceDepth ==
  InlineReturned =>
     LET src == call.before.src
         p == call.before.pos
         max == call.before.posMax
         n == runLength(src, p, max, call.delimiter)
         from == p + n
     IN  /\ call.ret =>
               /\ depthAt(src, from, state.pos - n) = 0
               /\ \A i \in from .. state.pos - n : depthAt(src, from, i) >= 0
         /\ (\E i \in from .. max - 1 :
                /\ n \in {1, 2}
                /\ countedBrace(src, i, "}") /\ depthAt(src, from, i) = 0
                /\ \A j \in from .. i - 1 :
                      /\ depthAt(src, from, j) >= 0
                      /\ ~(src[j + 1] = call.delimiter /\ depthAt(src, from, j) = 0))
            => ~call.ret

\* a scan that matched after passing a delimiter that stands inside braces
C11_Witness ==
  /\ InlineReturned /\ call.ret
  /\ LET src == call.before.src
         from == call.before.pos
                   + runLength(src, call.before.pos, call.before.posMax, call.delimiter)
     IN  \E j \in from .. state.pos - 1 :
            src[j + 1] = call.delimiter /\ depthAt(src, from, j) > 0

\* an attempt abandoned at a "}" met at depth 0, a delimiter following it
C11_FailWitness ==
  /\ InlineReturned /\ ~call.ret
  /\ state.src = <<dollar, "}", dollar>>


\* the least element of a non-empty set of line numbers
firstOf(S) == CHOOSE x \in S : \A y \in S : x <= y

\* the opening line is, after its indentation, a run of exactly two delimiters
\* followed by anything
opensBlock(st, lineNo, d) ==
  LET body == stripIndent(lineOf(st, lineNo), Len(lineOf(st, lineNo)))
  IN  runLength(body, 0, Len(body), d) = 2

\* line lineNo can close a block: a run of at least two delimiters and then
\* only spaces, indented by less than 4 more than the block indent
canClose(st, lineNo, d) ==
  /\ isFenceLine(st, lineNo, d, 2)
  /\ at(st.tShift, lineNo) - st.blkIndent < 4

\* line lineNo has text and is indented by less than the block indent
isUnderIndented(st, lineNo) ==
  /\ stripIndent(lineOf(st, lineNo), Len(lineOf(st, lineNo))) # <<>>
  /\ at(st.tShift, lineNo) < st.blkIndent

\* the lines after the opener, before the end bound, that can close the block
closersOf(c) ==
  {l \in c.startLine + 1 .. c.endLine - 1 : canClose(c.before, l, c.delimiter)}

\* C12, as claimed: after a valid opener the block closes on the first line
\* after it, before the end bound, that can close a block, whatever the lines
\* before that line are.
C12_FirstCloserAlways ==
  (BlockReturned /\ opensBlock(call.before, call.startLine, call.delimiter)) =>
     IF closersOf(call) = {} THEN ~call.ret
     ELSE call.ret /\ state.line = firstOf(closersOf(call)) + 1

\* C12, amended: after a valid opener, a call that returns true has closed the
\* block on the first line that can close a block; and the call returns true
\* whenever there is such a line and neither it nor a line before it has text
\* indented by less than the block indent.
C12_FirstCloser ==
  (BlockReturned /\ opensBlock(call.before, call.startLine, call.delimiter)) =>
     LET Q == closersOf(call) IN
       /\ call.ret => Q # {} /\ state.line = firstOf(Q) + 1
       /\ (Q # {} /\ \A l \in call.startLine + 1 .. firstOf(Q) :
                        ~isUnderIndented(call.before, l))
          => call.ret

\* a block closed on its third line, the second line starting with the
\* delimiter without being able to close it
C12_Witness ==
  /\ BlockReturned /\ call.ret
  /\ call.startLine = 0 /\ state.line = 3
  /\ charAt(stripIndent(lineOf(state, 1), Len(lineOf(state, 1))), 0) = call.delimiter
  /\ at(state.tShift, 1) = 4 /\ at(state.tShift, 2) = 4 /\ state.blkIndent = 1


\* the lines after the opener, before the end bound, that no line able to
\* close the block precedes
beforeAnyCloser(c) ==
  {u \in c.startLine + 1 .. c.endLine - 1 :
     \A l \in c.startLine + 1 .. u - 1 : ~canClose(c.before, l, c.delimiter)}

\* C13, as claimed: after a valid opener, a line indented by less than the
\* block indent, met before any closing line, makes the call return false and
\* leave the state as it was.
C13_UnderIndentStops ==
  (/\ BlockReturned /\ opensBlock(call.before, call.startLine, call.delimiter)
   /\ \E u \in beforeAnyCloser(call) :
         at(call.before.tShift, u) < call.before.blkIndent)
  => (~call.ret /\ state = call.before)

\* C13, amended: after a valid opener, a line that has text and is indented by
\* less than the block indent, met before any closing line, makes the call
\* return false and leave the state as it was: no token, state.line unchanged.
C13_UnderIndentedTextStops ==
  (/\ BlockReturned /\ opensBlock(call.before, call.startLine, call.delimiter)
   /\ \E u \in beforeAnyCloser(call) : isUnderIndented(call.before, u))
  => /\ ~call.ret
     /\ state = call.before
     /\ state.tokens = call.before.tokens /\ state.line = call.before.line

\* a call that failed on an under-indented line of text, a line able to close
\* the block following it before the end bound
C13_Witness ==
  /\ BlockReturned /\ ~call.ret
  /\ call.startLine = 0 /\ call.endLine = 3
  /\ opensBlock(call.before, 0, call.delimiter)
  /\ isUnderIndented(call.before, 1)
  /\ ~canClose(call.before, 1, call.delimiter)
  /\ canClose(call.before, 2, call.delimiter)


\* the index of the first "=" of the attribute a, or Len(a) if it has none
RECURSIVE equalsAt(_, _)
equalsAt(a, i) == IF i >= Len(a) \/ a[i + 1] = "=" THEN i ELSE equalsAt(a, i + 1)

\* the text between the quotes of the attribute a
valueOf(a) == slice(a, equalsAt(a, 0) + 2, Len(a) - 1)

isClassAttr(a) == hasName(a, nameClass)

isStyleAttr(a) == hasName(a, nameStyle)

classAttrsOf(tag) == SelectSeq(attrsOf(tag), isClassAttr)

styleAttrsOf(tag) == SelectSeq(attrsOf(tag), isStyleAttr)

notInline(token) == token # litInline

\* the tokens of a class list, cut at its spaces
tokensOf(a) == wordsOf(valueOf(a), <<>>)

\* the run of the normalizer the state records is over markup it had not seen
FirstRun == state.kind = "markup" /\ call.fn # "none" /\ ~call.again

\* C14: for every matched element that has one class attribute, if its class
\* list has the token inline, the output's class list is the list without that
\* token, the other tokens in order, and there is no class attribute when no
\* token is left; otherwise the class attribute is as it was; a matched element
\* without a class attribute gets none.
C14_ClassRewrite ==
  FirstRun =>
     LET P == piecesOf(call.arg, 0)
         Q == piecesOf(state.html, 0)
     IN  /\ Len(Q) = Len(P)
         /\ \A k \in 1 .. Len(P) :
              (isTag(P[k]) /\ carriesAriaHidden(P[k]) /\ Len(classAttrsOf(P[k])) <= 1) =>
                 LET cin == classAttrsOf(P[k])
                     cout == classAttrsOf(Q[k])
                 IN  IF cin = <<>> THEN cout = <<>>
                     ELSE LET kept == SelectSeq(tokensOf(cin[1]), notInline) IN
                          IF kept = tokensOf(cin[1]) THEN cout = cin
                          ELSE IF kept = <<>> THEN cout = <<>>
                          ELSE Len(cout) = 1 /\ tokensOf(cout[1]) = kept

\* s without a last character ";"
withoutSemicolon(s) ==
  IF s # <<>> /\ s[Len(s)] = ";" THEN SubSeq(s, 1, Len(s) - 1) ELSE s

\* C15: for every matched element that has at most one style attribute, the
\* output has exactly one style attribute and it holds display:none: a style
\* that has display:none or display: none is as it was; to any other style
\* display:none is added after one ";" that separates it from what was there;
\* with no style attribute, style="display:none" is added.
C15_StyleRewrite ==
  FirstRun =>
     LET P == piecesOf(call.arg, 0)
         Q == piecesOf(state.html, 0)
     IN  /\ Len(Q) = Len(P)
         /\ \A k \in 1 .. Len(P) :
              (isTag(P[k]) /\ carriesAriaHidden(P[k]) /\ Len(styleAttrsOf(P[k])) <= 1) =>
                 LET sin == styleAttrsOf(P[k])
                     sout == styleAttrsOf(Q[k])
                 IN  /\ Len(sout) = 1
                     /\ includes(valueOf(sout[1]), litDisplayNone)
                          \/ includes(valueOf(sout[1]), litDisplaySpNone)
                     /\ IF sin = <<>> THEN valueOf(sout[1]) = litDisplayNone
                        ELSE IF \/ includes(valueOf(sin[1]), litDisplayNone)
                                \/ includes(valueOf(sin[1]), litDisplaySpNone)
                        THEN sout = sin
                        ELSE valueOf(sout[1]) =
                               withoutSemicolon(valueOf(sin[1])) \o <<";", SP>> \o litDisplayNone


=============================================================================
